---- MODULE Spec2Model ----
(***************************************************************************)
(* Model of backend/app/main.py: the three exception handlers installed by *)
(* add_exception_handlers, and the application assembled by create_app.    *)
(*                                                                         *)
(* Python values are records [tag, n, s]; a str is a sequence of text      *)
(* fragments (single characters wherever the code inspects or assembles    *)
(* the text), a dict is a function from a set of key names to values, and  *)
(* a dict that outlives one call (HTTPException.detail) lives in heap.     *)
(***************************************************************************)
EXTENDS Integers, Sequences, FiniteSets, TLC

VARIABLES pc, apps, heap, now, call, resp

vars == <<pc, apps, heap, now, call, resp>>

\* ------------------------------------------------------------------ bounds
\* largest reading of the clock behind datetime.utcnow()
MaxClock == 1
\* longest list returned by RequestValidationError.errors()
MaxErrs == 2

\* ------------------------------------------------------------ Python values
VStr(s) == [tag |-> "str", n |-> 0, s |-> s]
VInt(n) == [tag |-> "int", n |-> n, s |-> <<>>]
VBool(b) == [tag |-> "bool", n |-> IF b THEN 1 ELSE 0, s |-> <<>>]
VNone == [tag |-> "none", n |-> 0, s |-> <<>>]

EmptyDict == [k \in {} |-> VNone]

\* dict.get(key, default)
DictGet(d, k, default) == IF k \in DOMAIN d THEN d[k] ELSE default

\* d[key] = value
DictSet(d, k, v) == [x \in (DOMAIN d) \cup {k} |-> IF x = k THEN v ELSE d[x]]

\* {**base, **over}: a key of both takes the later value
DictMerge(base, over) ==
    [x \in (DOMAIN base) \cup (DOMAIN over) |-> IF x \in DOMAIN over THEN over[x] ELSE base[x]]

UpperChars == <<"A","B","C","D","E","F","G","H","I","J","K","L","M",
                "N","O","P","Q","R","S","T","U","V","W","X","Y","Z">>
LowerChars == <<"a","b","c","d","e","f","g","h","i","j","k","l","m",
                "n","o","p","q","r","s","t","u","v","w","x","y","z">>

LowerChar(c) ==
    IF \E i \in 1..Len(UpperChars) : UpperChars[i] = c
    THEN LowerChars[CHOOSE i \in 1..Len(UpperChars) : UpperChars[i] = c]
    ELSE c

\* str.lower()
Lower(s) == [i \in 1..Len(s) |-> LowerChar(s[i])]

\* needle in hay
Contains(needle, hay) ==
    \E i \in 1..(Len(hay) - Len(needle) + 1) : SubSeq(hay, i, i + Len(needle) - 1) = needle

DigitChars == <<"0","1","2","3","4","5","6","7","8","9">>

RECURSIVE IntStr(_)
IntStr(n) ==
    IF n < 10 THEN <<DigitChars[n + 1]>>
    ELSE IntStr(n \div 10) \o <<DigitChars[(n % 10) + 1]>>

\* str(value) of a str or an int
PyStr(v) == IF v.tag = "int" THEN IntStr(v.n) ELSE v.s

\* datetime.isoformat() of the instant t seconds after the clock's origin
IsoFormat(t) ==
    <<"1970-01-01T00:00:">> \o (IF t < 10 THEN <<"0">> ELSE <<>>) \o IntStr(t)

\* ------------------------------------------------------------- text literals
S_Error == <<"E","r","r","o","r">>
S_autho == <<"a","u","t","h","o">>
S_Authorization == <<"A","u","t","h","o","r","i","z","a","t","i","o","n">>
S_UNAUTHORIZED == <<"U","N","A","U","T","H","O","R","I","Z","E","D">>
S_SomethingElse == <<"S","o","m","e","t","h","i","n","g"," ","e","l","s","e">>
S_name == <<"n","a","m","e">>
S_age == <<"a","g","e">>
S_body == <<"b","o","d","y">>
S_items == <<"i","t","e","m","s">>
S_required == <<"r","e","q","u","i","r","e","d">>
S_must_be_integer == <<"m","u","s","t"," ","b","e"," ","i","n","t","e","g","e","r">>

ValidationLabel == <<"Request Validation Error">>
InternalLabel == <<"An internal server error occurred.">>
\* the two localized messages of general_exception_handler (lines 105 and 141)
MessageSeeErrorLog == <<"unknown error occurred; for details see errorlog">>
MessageAskChannelTalk == <<"unknown error occurred; for details ask on channel talk">>

\* ------------------------------------------------------------- status codes
HTTP_401_UNAUTHORIZED == 401
HTTP_403_FORBIDDEN == 403
HTTP_422_UNPROCESSABLE_ENTITY == 422

\* ---------------------------------------------------------------- responses
\* JSONResponse(status_code=..., content=...)
JSONResponse(status_code, content) ==
    [outcome |-> "response", status_code |-> status_code,
     has_content |-> TRUE, content |-> content]

\* JSONResponse(status_code=...) with no content argument
JSONResponseNoContent(status_code) ==
    [outcome |-> "response", status_code |-> status_code,
     has_content |-> FALSE, content |-> EmptyDict]

\* an exception leaves the handler
Raised ==
    [outcome |-> "raised", status_code |-> 0, has_content |-> FALSE, content |-> EmptyDict]

\* {"timestamp": timestamp, "method": method, "path": path}
RequestFields(ts, req) ==
    [x \in {"timestamp", "method", "path"} |->
        IF x = "timestamp" THEN VStr(IsoFormat(ts))
        ELSE IF x = "method" THEN VStr(req.method) ELSE VStr(req.path)]

\* {"timestamp": timestamp, "method": method, "path": path, **detail}
Envelope(ts, req, detail) == DictMerge(RequestFields(ts, req), detail)

\* --------------------------------------------------- http_exception_handler
\* detail = exc.detail if isinstance(exc.detail, dict) else {...}
NormalDetail(d, h) ==
    IF d.kind = "dict" THEN h[d.obj]
    ELSE [x \in {"error", "message"} |->
            IF x = "error" THEN VStr(S_Error) ELSE VStr(d.text)]

\* a variant that keeps a status or code the mapping already has (setdefault)
SetStatusKeepingOld(detail, s) ==
    [x \in (DOMAIN detail) \cup {"status", "code"} |->
        IF x \in DOMAIN detail THEN detail[x] ELSE VInt(s)]

\* detail["status"] = s ; detail["code"] = s
SetStatus(detail, s) == DictSet(DictSet(detail, "status", VInt(s)), "code", VInt(s))

\* detail.get("error", "").lower() raises unless the value is a str
ErrorLowerRaises(detail) == DictGet(detail, "error", VStr(<<>>)).tag # "str"

\* 'autho' in detail.get("error", "").lower()
IsAutho(detail) == Contains(S_autho, Lower(DictGet(detail, "error", VStr(<<>>)).s))

\* the 401 branch: the body's status is 401 or 402
Remap401(detail) == IF IsAutho(detail) THEN 401 ELSE 402

\* a variant of the 403 branch with the content argument of line 49 restored
Forbidden403WithBody(ts, req, detail) ==
    JSONResponse(HTTP_403_FORBIDDEN, Envelope(ts, req, detail))

\* the 403 branch, its content argument commented out
Forbidden403(ts, req, detail) == JSONResponseNoContent(HTTP_403_FORBIDDEN)

\* [r |-> what the handler returns or raises, detail |-> the detail dict afterwards]
HttpHandle(ts, req, status_code, detail) ==
    IF status_code = 400 THEN
        LET d == SetStatus(detail, status_code)
        IN  [r |-> JSONResponse(status_code, Envelope(ts, req, d)), detail |-> d]
    ELSE IF status_code = 401 THEN
        IF ErrorLowerRaises(detail) THEN [r |-> Raised, detail |-> detail]
        ELSE LET d == SetStatus(detail, Remap401(detail))
             IN  [r |-> JSONResponse(HTTP_401_UNAUTHORIZED, Envelope(ts, req, d)), detail |-> d]
    ELSE IF status_code = 403 THEN
        LET d == SetStatus(detail, 403)
        IN  [r |-> Forbidden403(ts, req, d), detail |-> d]
    ELSE IF status_code = 404 THEN
        LET d == SetStatus(detail, status_code)
        IN  [r |-> JSONResponse(status_code, Envelope(ts, req, d)), detail |-> d]
    ELSE
        LET d == SetStatus(detail, status_code)
        IN  [r |-> JSONResponse(status_code, Envelope(ts, req, d)), detail |-> d]

\* --------------------------------------------- validation_exception_handler
\* a variant that keeps the first segment: error['loc']
LocTailWhole(loc) == loc

\* error['loc'][1:]
LocTail(loc) == SubSeq(loc, 2, Len(loc))

\* sep.join(parts)
RECURSIVE Join(_, _)
Join(sep, parts) ==
    IF Len(parts) = 0 THEN <<>>
    ELSE IF Len(parts) = 1 THEN parts[1]
    ELSE parts[1] \o sep \o Join(sep, Tail(parts))

\* f"{'.'.join(map(str, error['loc'][1:]))}: {error['msg']}"
FieldMessage(error) ==
    Join(<<".">>, [i \in 1..Len(LocTail(error.loc)) |-> PyStr(LocTail(error.loc)[i])])
        \o <<":", " ">> \o error.msg

\* " ".join([... for error in validation_errors])
Messages(validation_errors) ==
    Join(<<" ">>, [i \in 1..Len(validation_errors) |-> FieldMessage(validation_errors[i])])

ValidationContent(ts, req, validation_errors) ==
    DictMerge(RequestFields(ts, req),
        [x \in {"status", "code", "error", "message"} |->
            IF x \in {"status", "code"} THEN VInt(422)
            ELSE IF x = "error" THEN VStr(ValidationLabel)
            ELSE VStr(Messages(validation_errors))])

ValidationHandle(ts, req, validation_errors) ==
    JSONResponse(HTTP_422_UNPROCESSABLE_ENTITY, ValidationContent(ts, req, validation_errors))

\* ------------------------------------------------ general_exception_handler
\* the 500 body of both paths
InternalContent(ts, req, error, message) ==
    DictMerge(RequestFields(ts, req),
        [x \in {"status", "code", "error", "message"} |->
            IF x \in {"status", "code"} THEN VInt(500)
            ELSE IF x = "error" THEN VStr(error) ELSE VStr(message)])

\* the try block raises: str(exc) fails, or `error` and `message` were never
\* bound because the LocalProtocolError branch is `pass`
PrimaryRaises(exc) == exc.str_fails \/ exc.class = "LocalProtocolError"

\* [r |-> the response, fallback |-> whether the except block built it]
GeneralHandle(ts, req, exc) ==
    IF PrimaryRaises(exc)
    THEN [r |-> JSONResponse(500, InternalContent(ts, req, InternalLabel, MessageAskChannelTalk)),
          fallback |-> TRUE]
    ELSE [r |-> JSONResponse(500, InternalContent(ts, req, InternalLabel, MessageSeeErrorLog)),
          fallback |-> FALSE]

\* ------------------------------------------------------------- applications
\* app_v1 and app of create_app, and an application a caller of
\* add_exception_handlers passes in
AppIds == {"app_v1", "app", "caller_app"}

HandlerClasses == {"HTTPException", "RequestValidationError", "Exception"}

P_healths == <<"/", "healths">>
P_recruit == <<"/", "recruit">>
P_api_v1 == <<"/", "api", "/", "v1">>

NoApp == [exists |-> FALSE, routes |-> {}, mounts |-> {}, middleware |-> {}, handlers |-> {}]

\* FastAPI(...)
NewApp == [NoApp EXCEPT !.exists = TRUE]

IsPrefix(p, s) == Len(p) <= Len(s) /\ SubSeq(s, 1, Len(p)) = p

\* the application whose route serves path, following the mounts of root
Resolve(a, root, path) ==
    IF \E m \in a[root].mounts : IsPrefix(m.prefix, path)
    THEN (CHOOSE m \in a[root].mounts : IsPrefix(m.prefix, path)).app
    ELSE root

\* the body of add_exception_handlers: three @app.exception_handler decorators
RegisterHandlers(a, id) ==
    [a EXCEPT ![id].handlers = @ \cup {"HTTPException", "RequestValidationError", "Exception"}]

\* the body of create_app; add_exception_handlers is not called in it
CreateApp(a) ==
    [a EXCEPT
        !["app_v1"] = [NewApp EXCEPT !.routes = {P_recruit}],
        !["app"] = [NewApp EXCEPT
                        !.mounts = {[prefix |-> P_api_v1, app |-> "app_v1"]},
                        !.routes = {P_healths},
                        !.middleware = {"CORSMiddleware"}]]

\* ------------------------------------------------------------------- inputs
Requests ==
    { [method |-> <<"GET">>, path |-> P_healths],
      [method |-> <<"POST">>, path |-> P_api_v1 \o P_recruit] }

StatusCodes == {400, 401, 403, 404, 409, 500}

\* the dict objects that application code hands to HTTPException(detail=...)
Objs == {"d1"}

Opt(k, present, v) == IF present THEN [x \in {k} |-> v] ELSE EmptyDict

ErrorValues == {VStr(S_Authorization), VStr(S_UNAUTHORIZED), VStr(S_SomethingElse), VNone}

\* a detail mapping with any subset of error, message, alert and of status, code
InputDicts ==
    { DictMerge(DictMerge(DictMerge(
            Opt("error", he, e),
            Opt("message", hm, VStr(<<"bad request">>))),
            Opt("alert", ha, VBool(TRUE))),
            IF hs THEN [x \in {"status", "code"} |-> VInt(999)] ELSE EmptyDict) :
        he \in BOOLEAN, e \in ErrorValues, hm \in BOOLEAN, ha \in BOOLEAN, hs \in BOOLEAN }

\* exc.detail: a plain string, or one of the dict objects
Details ==
    { [kind |-> "str", text |-> t, obj |-> "-"] : t \in {<<"Not Found">>, <<"Not authorized">>} }
    \cup { [kind |-> "dict", text |-> <<>>, obj |-> o] : o \in Objs }

\* one entry of RequestValidationError.errors()
FieldErrors ==
    { [loc |-> <<VStr(S_body), VStr(S_name)>>, msg |-> S_required],
      [loc |-> <<VStr(S_body), VStr(S_age)>>, msg |-> S_must_be_integer],
      [loc |-> <<VStr(S_body), VStr(S_items), VInt(10)>>, msg |-> S_required],
      [loc |-> <<VStr(S_body)>>, msg |-> S_must_be_integer] }

ErrorLists == UNION { [1..n -> FieldErrors] : n \in 0..MaxErrs }

\* an exception in flight: its class and what the handlers read of it
NoException ==
    [class |-> "-", status_code |-> 0, detail |-> [kind |-> "-", text |-> <<>>, obj |-> "-"],
     errors |-> <<>>, str_fails |-> FALSE]

HTTPExceptions ==
    { [NoException EXCEPT !.class = "HTTPException", !.status_code = c, !.detail = d] :
        c \in StatusCodes, d \in Details }

RequestValidationErrors ==
    { [NoException EXCEPT !.class = "RequestValidationError", !.errors = e] : e \in ErrorLists }

\* any other exception: its class, and whether str(exc) raises
OtherExceptions ==
    { [NoException EXCEPT !.class = t, !.str_fails = f] :
        t \in {"RuntimeError", "LocalProtocolError"}, f \in BOOLEAN }

Exceptions == HTTPExceptions \cup RequestValidationErrors \cup OtherExceptions

\* the class a handler is registered for, among the three of this module
HandlerClass(exc) ==
    IF exc.class \in {"HTTPException", "RequestValidationError"} THEN exc.class ELSE "Exception"

NoRequest == [method |-> <<>>, path |-> <<>>]

\* phase: "idle", "raised" (an exception is in flight), "handled" (resp answers it)
NoCall ==
    [phase |-> "idle", handler |-> "-", app |-> "-", exc |-> NoException,
     req |-> NoRequest, before |-> EmptyDict]

NoResponse ==
    [outcome |-> "-", status_code |-> 0, has_content |-> FALSE,
     content |-> EmptyDict, fallback |-> FALSE]

Answer(r, fallback) ==
    [outcome |-> r.outcome, status_code |-> r.status_code,
     has_content |-> r.has_content, content |-> r.content, fallback |-> fallback]

\* --------------------------------------------------------------- the system
Init ==
    /\ pc = "import"
    /\ apps = [id \in AppIds |-> NoApp]
    /\ heap \in [Objs -> InputDicts]
    /\ now = 0
    /\ call = NoCall
    /\ resp = NoResponse

\* line 180: app = create_app(), run when the module is imported
create_app ==
    /\ pc = "import"
    /\ pc' = "serving"
    /\ apps' = CreateApp(apps)
    /\ UNCHANGED <<heap, now, call, resp>>

\* a caller that imported the module passes its own application
add_exception_handlers ==
    /\ pc = "serving"
    /\ call.phase = "idle"
    /\ apps' = RegisterHandlers([apps EXCEPT !["caller_app"] = [@ EXCEPT !.exists = TRUE]],
                                "caller_app")
    /\ UNCHANGED <<pc, heap, now, call, resp>>

\* the clock behind datetime.utcnow() advances
Tick ==
    /\ now < MaxClock
    /\ now' = now + 1
    /\ UNCHANGED <<pc, apps, heap, call, resp>>

Roots == {id \in {"app", "caller_app"} : apps[id].exists}

\* a route, or the framework on its behalf, raises while root serves req
route_raises ==
    \E root \in Roots, req \in Requests, exc \in Exceptions :
        /\ call.phase = "idle"
        /\ call' = [NoCall EXCEPT !.phase = "raised", !.app = Resolve(apps, root, req.path),
                                  !.exc = exc, !.req = req]
        /\ UNCHANGED <<pc, apps, heap, now, resp>>

\* the framework calls the handler registered on the serving application
Dispatched(class) ==
    /\ call.phase = "raised"
    /\ HandlerClass(call.exc) = class
    /\ class \in apps[call.app].handlers

http_exception_handler ==
    /\ Dispatched("HTTPException")
    /\ LET d == call.exc.detail
           detail == NormalDetail(d, heap)
           out == HttpHandle(now, call.req, call.exc.status_code, detail)
       IN  /\ heap' = IF d.kind = "dict" THEN [heap EXCEPT ![d.obj] = out.detail] ELSE heap
           /\ call' = [call EXCEPT !.phase = "handled", !.handler = "http_exception_handler",
                                   !.before = detail]
           /\ resp' = Answer(out.r, FALSE)
    /\ UNCHANGED <<pc, apps, now>>

validation_exception_handler ==
    /\ Dispatched("RequestValidationError")
    /\ call' = [call EXCEPT !.phase = "handled", !.handler = "validation_exception_handler"]
    /\ resp' = Answer(ValidationHandle(now, call.req, call.exc.errors), FALSE)
    /\ UNCHANGED <<pc, apps, heap, now>>

general_exception_handler ==
    /\ Dispatched("Exception")
    /\ LET out == GeneralHandle(now, call.req, call.exc)
       IN  /\ call' = [call EXCEPT !.phase = "handled", !.handler = "general_exception_handler"]
           /\ resp' = Answer(out.r, out.fallback)
    /\ UNCHANGED <<pc, apps, heap, now>>

\* no handler of this module is registered on the serving application: the
\* framework answers by itself, with a body that is not modelled
framework_default ==
    /\ call.phase = "raised"
    /\ HandlerClass(call.exc) \notin apps[call.app].handlers
    /\ call' = [call EXCEPT !.phase = "handled", !.handler = "framework"]
    /\ resp' = [NoResponse EXCEPT !.outcome = "framework"]
    /\ UNCHANGED <<pc, apps, heap, now>>

\* GET /healths
health_check ==
    /\ call.phase = "idle"
    /\ apps["app"].exists /\ P_healths \in apps["app"].routes
    /\ call' = [NoCall EXCEPT !.phase = "handled", !.handler = "health_check", !.app = "app",
                              !.req = [method |-> <<"GET">>, path |-> P_healths]]
    /\ resp' = [outcome |-> "response", status_code |-> 200, has_content |-> TRUE,
                content |-> [x \in {"status"} |-> VStr(<<"ok">>)], fallback |-> FALSE]
    /\ UNCHANGED <<pc, apps, heap, now>>

\* the response, or the exception that left the handler, goes back to the framework
finish ==
    /\ call.phase = "handled"
    /\ call' = NoCall
    /\ resp' = NoResponse
    /\ UNCHANGED <<pc, apps, heap, now>>

Next ==
    \/ create_app
    \/ add_exception_handlers
    \/ Tick
    \/ route_raises
    \/ http_exception_handler
    \/ validation_exception_handler
    \/ general_exception_handler
    \/ framework_default
    \/ health_check
    \/ finish

Spec == Init /\ [][Next]_vars

\* ------------------------------------------------------------------- claims
ModuleHandlers ==
    {"http_exception_handler", "validation_exception_handler", "general_exception_handler"}

EnvelopeKeys == {"timestamp", "method", "path", "status", "code", "error", "message"}

\* a handler of this module has run on the exception in flight
Handled(h) == call.phase = "handled" /\ call.handler = h

\* ... and returned a response
Responded(h) == Handled(h) /\ resp.outcome = "response"

Is403 == call.handler = "http_exception_handler" /\ call.exc.status_code = 403

\* C1: for a 401 HTTP error the response status is 401 when the detail's
\* error field contains "autho" in any case, and 402 otherwise (also for a
\* plain-string detail).
C1_Status401Or402 ==
    (Responded("http_exception_handler") /\ call.exc.status_code = 401)
        => resp.status_code = (IF IsAutho(call.before) THEN 401 ELSE 402)

\* C2: every response of the three handlers, the 403 branch excepted, has an
\* HTTP status code equal to the body's status field, which equals its code
\* field.
C2_StatusMatchesBody ==
    (call.handler \in ModuleHandlers /\ call.phase = "handled"
        /\ resp.outcome = "response" /\ ~Is403)
        => /\ resp.has_content
           /\ {"status", "code"} \subseteq DOMAIN resp.content
           /\ resp.content["status"] = VInt(resp.status_code)
           /\ resp.content["code"] = resp.content["status"]

\* C3: every response body of the handlers, the 403 branch excepted, has
\* exactly the keys timestamp, method, path, status, code, error, message,
\* whatever the detail payload; the alert flag is never in it.
C3_ExactKeys ==
    (call.handler \in ModuleHandlers /\ call.phase = "handled"
        /\ resp.outcome = "response" /\ ~Is403)
        => DOMAIN resp.content = EnvelopeKeys

\* C4: every exception reaching general_exception_handler whose primary
\* envelope can be built, the h11 LocalProtocolError included, is answered
\* with status 500 and the fixed message of the normal path.
C4_FixedMessage ==
    (Handled("general_exception_handler") /\ ~call.exc.str_fails)
        => /\ resp.outcome = "response"
           /\ resp.status_code = 500
           /\ "message" \in DOMAIN resp.content
           /\ resp.content["message"] = VStr(MessageSeeErrorLog)

\* C5: no invocation of the three handlers lets an exception out: each one
\* returns a JSON response, also for a detail mapping whose error value is
\* not a string.
C5_NothingPropagates ==
    (call.handler \in ModuleHandlers /\ call.phase = "handled")
        => resp.outcome = "response"

\* C6: an HTTP error whose status code is neither 401 nor 403 is answered
\* with that status code, and the body's status and code both equal it, also
\* when the detail mapping came with status or code keys of its own.
C6_EchoStatus ==
    (Handled("http_exception_handler") /\ call.exc.status_code \notin {401, 403})
        => /\ resp.outcome = "response"
           /\ resp.status_code = call.exc.status_code
           /\ resp.has_content
           /\ {"status", "code"} \subseteq DOMAIN resp.content
           /\ resp.content["status"] = VInt(call.exc.status_code)
           /\ resp.content["code"] = VInt(call.exc.status_code)

\* a 409 answered for a detail mapping that already carried status 999
C6_Witness ==
    /\ Responded("http_exception_handler")
    /\ call.exc.status_code = 409
    /\ call.exc.detail.kind = "dict"
    /\ "status" \in DOMAIN call.before
    /\ call.before["status"] = VInt(999)
    /\ resp.content["status"] = VInt(409)

\* C7: a handler invocation leaves the exception it was given unchanged, the
\* detail mapping of the HTTP error included.
C7_DetailUnchanged ==
    (Handled("http_exception_handler") /\ call.exc.detail.kind = "dict")
        => heap[call.exc.detail.obj] = call.before

\* the text the validation claim describes, assembled from left to right
RECURSIVE DottedFrom(_, _)
DottedFrom(loc, i) ==
    IF i > Len(loc) THEN <<>>
    ELSE PyStr(loc[i]) \o (IF i < Len(loc) THEN <<".">> ELSE <<>>) \o DottedFrom(loc, i + 1)

RECURSIVE SpacedFrom(_, _)
SpacedFrom(errors, i) ==
    IF i > Len(errors) THEN <<>>
    ELSE DottedFrom(errors[i].loc, 2) \o <<":", " ">> \o errors[i].msg
            \o (IF i < Len(errors) THEN <<" ">> ELSE <<>>) \o SpacedFrom(errors, i + 1)

\* [body.name required, body.age must be integer]
ExampleErrors ==
    << [loc |-> <<VStr(S_body), VStr(S_name)>>, msg |-> S_required],
       [loc |-> <<VStr(S_body), VStr(S_age)>>, msg |-> S_must_be_integer] >>

\* "name: required age: must be integer"
ExampleMessage ==
    <<"n","a","m","e",":"," ","r","e","q","u","i","r","e","d"," ",
      "a","g","e",":"," ","m","u","s","t"," ","b","e"," ","i","n","t","e","g","e","r">>

\* C8: a validation error is answered with status 422, the error label
\* "Request Validation Error", and as message the strings "<location segments
\* after the first, dot-joined>: <msg>" of the error list, in order, joined
\* by single spaces; the example list gives "name: required age: must be
\* integer".
C8_ValidationMessage ==
    Handled("validation_exception_handler")
        => /\ resp.outcome = "response"
           /\ resp.status_code = 422
           /\ resp.has_content
           /\ resp.content["error"] = VStr(ValidationLabel)
           /\ resp.content["message"] = VStr(SpacedFrom(call.exc.errors, 1))
           /\ (call.exc.errors = ExampleErrors
                  => resp.content["message"] = VStr(ExampleMessage))

\* the example list has been answered
C8_Witness ==
    /\ Responded("validation_exception_handler")
    /\ call.exc.errors = ExampleErrors
    /\ resp.content["message"] = VStr(ExampleMessage)

\* C9: a 403 HTTP error is answered with status 403 and no body: none of the
\* envelope fields is sent, whatever the detail payload.
C9_Forbidden403NoBody ==
    (Handled("http_exception_handler") /\ call.exc.status_code = 403)
        => /\ resp.outcome = "response"
           /\ resp.status_code = 403
           /\ ~resp.has_content
           /\ (DOMAIN resp.content) \cap EnvelopeKeys = {}

\* a 403 answered for a detail mapping that had an error and a message
C9_Witness ==
    /\ Responded("http_exception_handler")
    /\ call.exc.status_code = 403
    /\ call.exc.detail.kind = "dict"
    /\ {"error", "message"} \subseteq DOMAIN call.before
    /\ ~resp.has_content

\* C10: an exception raised by a route of the application built by
\* create_app, the router mounted under /api/v1 included, is answered by the
\* matching handler of add_exception_handlers.
C10_HandlersInstalled ==
    (call.phase = "handled" /\ call.app \in {"app", "app_v1"}
        /\ call.exc.class # "-")
        => call.handler \in ModuleHandlers

====
